---- MODULE Spec2Model ----
(***************************************************************************)
(* State-machine model of src/common/os_input_output.rs: the annotated     *)
(* message channel (IpcSenderWithContext over ipmpsc ring buffers), the    *)
(* server and client capability handles, the connection handshake, the     *)
(* PTY process manager (spawn_terminal, handle_command_exit, kill, reads    *)
(* and writes of the primary descriptor) and the terminal mode controller  *)
(* (into_raw_mode / unset_raw_mode).                                       *)
(***************************************************************************)
EXTENDS Integers, Sequences, FiniteSets, TLC

(***************************************************************************)
(* Bounds of the model.                                                    *)
(***************************************************************************)
\* send calls (successful or failing) made over one behaviour
MaxCalls == 3
\* PTY sessions spawned over one behaviour
MaxSessions == 1
\* send calls made over one behaviour of the cloned handles
MaxCloneCalls == 2

(***************************************************************************)
(* Program constants and input domains.                                    *)
(***************************************************************************)
IPC_BUFFER_SIZE == 8388608
\* the well-known server endpoint; temporary client endpoints are 1, 2, ...
ZELLIJ_IPC_PIPE == 0

\* the population: the server's first handle and one clone of it, and two
\* client handles (two client processes, or one process and a clone)
ServerHandleIds == {1, 2}
ClientHandleIds == {1, 2}
\* ErrorContext values; ErrorContext::new() is the empty one
ErrorContexts == {"empty", "ctx1"}
\* PositionAndSize values a client may announce
Geometries == {"80x24"}
\* serialized size of a payload: "Bulk" stands for an instruction whose
\* serialization does not fit the ring buffer
ServerInstructionNames == {"ToPty", "Bulk"}
ClientInstructionNames == {"Render", "Bulk"}

Instr(name) == [type |-> name, path |-> ZELLIJ_IPC_PIPE, ws |-> "none"]
Exit == Instr("Exit")
NewClient(path, ws) == [type |-> "NewClient", path |-> path, ws |-> ws]

Size(msg) == IF msg.type = "Bulk" THEN IPC_BUFFER_SIZE + 1 ELSE 1

\* Option<T>: None is the empty sequence, Some(x) the one-element sequence
None == << >>
Some(x) == << x >>
IsSome(o) == Len(o) = 1
Unwrap(o) == o[1]

VARIABLES
    \* ---- annotated message channel and capability handles
    buffers,        \* path -> sequence of frames in that SharedRingBuffer
    server,         \* sequence of ServerOsInputOutput handles (clones appended)
    client,         \* sequence of ClientOsInputOutput handles (clones appended)
    recv_lock,      \* holder of the server_receiver mutex (0: free)
    crashed,        \* processes terminated by a panic (0: server, k: client k)
    calls,          \* history per sender: every send call, with what was passed
    received,       \* history per buffer: every pair returned by a recv call
    \* ---- terminal mode controller
    tio,            \* descriptor -> terminal attributes
    orig_termios,   \* owner -> attributes captured at startup
    raw_trace,      \* history per client handle of the raw-mode round trip
    \* ---- PTY process manager
    env,            \* environment variables EDITOR, VISUAL, SHELL
    sessions,       \* sequence of PTY sessions (manager, program, pty)
    caller          \* the server thread that spawns and kills

ipc_vars == << buffers, server, client, recv_lock, crashed, calls, received >>
tty_vars == << tio, orig_termios, raw_trace >>
pty_vars == << env, sessions, caller >>
vars == << buffers, server, client, recv_lock, crashed, calls, received,
           tio, orig_termios, raw_trace, env, sessions, caller >>

(***************************************************************************)
(* ipmpsc ring buffer: one write cursor and one read cursor per buffer.    *)
(***************************************************************************)
\* IpcSender::send: appends the whole serialized value, or fails when the
\* value cannot fit the buffer
IpcSend(buf, frame) ==
    IF Size(frame.msg) > IPC_BUFFER_SIZE
    THEN [ok |-> FALSE, buf |-> buf]
    ELSE [ok |-> TRUE, buf |-> Append(buf, frame)]

\* Faulty variant: a receiver that hands out the newest value first
IpcRecvNewest(buf) == [frame |-> buf[Len(buf)], buf |-> SubSeq(buf, 1, Len(buf) - 1)]

\* IpcReceiver::recv: the oldest value not yet received
IpcRecv(buf) == [frame |-> Head(buf), buf |-> Tail(buf)]

(***************************************************************************)
(* IpcSenderWithContext                                                    *)
(***************************************************************************)
ErrorContextNew == "empty"

IpcSenderWithContextNew(buffer) == [err_ctx |-> ErrorContextNew, sender |-> buffer]

update(self, ctx) == [self EXCEPT !.err_ctx = ctx]

\* Faulty variant: a send that serializes the payload with a fresh context
sendNoCtx(self, msg, id) == [msg |-> msg, err_ctx |-> ErrorContextNew, id |-> id]

\* the value handed to the ring buffer: (msg, self.err_ctx); id names the
\* call in the history and is not part of the transported value
send(self, msg, id) == [msg |-> msg, err_ctx |-> self.err_ctx, id |-> id]

\* the senders that can exist, and the number of send calls made so far
SenderIds ==
    { << "server", h, r >> : h \in ServerHandleIds, r \in {"server_sender", "client_sender"} }
    \cup { << "client", k, "server_sender" >> : k \in ClientHandleIds }

RECURSIVE SumLen(_, _)
SumLen(f, S) ==
    IF S = {} THEN 0
    ELSE LET x == CHOOSE y \in S : TRUE IN Len(f[x]) + SumLen(f, S \ {x})

TotalCalls == SumLen(calls, SenderIds)


\* Faulty variant: the result of a send ignored: the call returns either way
unwrapIgnored(res) == "returned"

\* Result::unwrap on the result of a send: Ok returns, Err panics
unwrap(res) == IF res.ok THEN "returned" ELSE "panicked"

\* a panic terminates the process of the caller
Panic(proc) == crashed' = crashed \cup {proc}

\* sender.send(msg).unwrap() by a thread of process proc; who names the
\* sender in the history
SendUnwrap(proc, sender, msg, who) ==
    LET id == << who, Len(calls[who]) + 1 >>
        res == IpcSend(buffers[sender.sender], send(sender, msg, id))
    IN  /\ TotalCalls < MaxCalls
        /\ buffers' = [buffers EXCEPT ![sender.sender] = res.buf]
        /\ calls' = [calls EXCEPT ![who] = Append(@,
                         [to |-> sender.sender, msg |-> msg,
                          err_ctx |-> sender.err_ctx, outcome |-> unwrap(res)])]
        /\ crashed' = IF unwrap(res) = "panicked" THEN crashed \cup {proc} ELSE crashed

(***************************************************************************)
(* ServerOsInputOutput                                                     *)
(***************************************************************************)
ServerProc == 0
ServerHandles == 1..Len(server)
\* a handle is usable by its thread while the process lives and the thread
\* is not parked inside server_recv
ServerReady(h) == ServerProc \notin crashed /\ recv_lock # h

ServerSenderId(h) == << "server", h, "server_sender" >>
ClientSenderId(h) == << "server", h, "client_sender" >>

\* the paths announced in NewClient messages the server has received
Announced ==
    { received[ZELLIJ_IPC_PIPE][i].msg.path :
         i \in { j \in 1..Len(received[ZELLIJ_IPC_PIPE]) :
                    received[ZELLIJ_IPC_PIPE][j].msg.type = "NewClient" } }

\* get_server_os_input()
GetServerOsInput ==
    [server_sender |-> IpcSenderWithContextNew(ZELLIJ_IPC_PIPE),
     client_sender |-> None,
     registered |-> {}]

\* box_clone: #[derive(Clone)] copies both senders, shares the receiver
ServerBoxClone(h) ==
    /\ h \in ServerHandles /\ ServerReady(h)
    /\ Len(server) < Cardinality(ServerHandleIds)
    /\ server' = Append(server, server[h])
    /\ UNCHANGED << buffers, client, recv_lock, crashed, calls, received >>
    /\ UNCHANGED << tty_vars, pty_vars >>

\* server_exit
ServerExit(h) ==
    /\ h \in ServerHandles /\ ServerReady(h)
    /\ SendUnwrap(ServerProc, server[h].server_sender, Exit, ServerSenderId(h))
    /\ UNCHANGED << server, client, recv_lock, received >>
    /\ UNCHANGED << tty_vars, pty_vars >>

\* server_recv, first half: self.server_receiver.lock().unwrap()
ServerRecvLock(h) ==
    /\ h \in ServerHandles /\ ServerReady(h)
    /\ recv_lock = 0
    /\ recv_lock' = h
    /\ UNCHANGED << buffers, server, client, crashed, calls, received >>
    /\ UNCHANGED << tty_vars, pty_vars >>

\* Faulty variant: a receive that returns the oldest message and leaves the
\* read cursor where it was
ServerRecvPeek(h) ==
    /\ h \in ServerHandles /\ ServerProc \notin crashed
    /\ recv_lock = h
    /\ buffers[ZELLIJ_IPC_PIPE] # << >>
    /\ LET r == IpcRecv(buffers[ZELLIJ_IPC_PIPE])
       IN  received' = [received EXCEPT ![ZELLIJ_IPC_PIPE] = Append(@,
                  [by |-> << "server", h >>,
                   msg |-> r.frame.msg, err_ctx |-> r.frame.err_ctx, id |-> r.frame.id])]
    /\ recv_lock' = 0
    /\ UNCHANGED << buffers, server, client, crashed, calls >>
    /\ UNCHANGED << tty_vars, pty_vars >>

\* server_recv, second half: .recv().unwrap() blocks until a message is
\* there, returns it and drops the guard
ServerRecv(h) ==
    /\ h \in ServerHandles /\ ServerProc \notin crashed
    /\ recv_lock = h
    /\ buffers[ZELLIJ_IPC_PIPE] # << >>
    /\ LET r == IpcRecv(buffers[ZELLIJ_IPC_PIPE])
       IN  /\ buffers' = [buffers EXCEPT ![ZELLIJ_IPC_PIPE] = r.buf]
           /\ received' = [received EXCEPT ![ZELLIJ_IPC_PIPE] = Append(@,
                  [by |-> << "server", h >>,
                   msg |-> r.frame.msg, err_ctx |-> r.frame.err_ctx, id |-> r.frame.id])]
    /\ recv_lock' = 0
    /\ UNCHANGED << server, client, crashed, calls >>
    /\ UNCHANGED << tty_vars, pty_vars >>

\* Faulty variant: a send_to_client that returns without doing anything
\* when no client sender is set
SendToClientSilent(h, msg) ==
    /\ h \in ServerHandles /\ ServerReady(h)
    /\ IF IsSome(server[h].client_sender)
       THEN SendUnwrap(ServerProc, Unwrap(server[h].client_sender), msg, ClientSenderId(h))
       ELSE /\ TotalCalls < MaxCalls
            /\ calls' = [calls EXCEPT ![ClientSenderId(h)] = Append(@,
                             [to |-> -1, msg |-> msg,
                              err_ctx |-> "none", outcome |-> "returned"])]
            /\ UNCHANGED << buffers, crashed >>
    /\ UNCHANGED << server, client, recv_lock, received >>
    /\ UNCHANGED << tty_vars, pty_vars >>

\* send_to_client: self.client_sender.as_mut().unwrap().send(msg).unwrap()
SendToClient(h, msg) ==
    /\ h \in ServerHandles /\ ServerReady(h)
    /\ IF IsSome(server[h].client_sender)
       THEN SendUnwrap(ServerProc, Unwrap(server[h].client_sender), msg, ClientSenderId(h))
       ELSE /\ TotalCalls < MaxCalls
            /\ Panic(ServerProc)
            /\ calls' = [calls EXCEPT ![ClientSenderId(h)] = Append(@,
                             [to |-> -1, msg |-> msg,
                              err_ctx |-> "none", outcome |-> "panicked"])]
            /\ UNCHANGED buffers
    /\ UNCHANGED << server, client, recv_lock, received >>
    /\ UNCHANGED << tty_vars, pty_vars >>

\* Faulty variant: a registration that opens the well-known endpoint instead of
\* the announced one
AddClientSenderWellKnown(h, path) ==
    /\ h \in ServerHandles /\ ServerReady(h)
    /\ server' = [server EXCEPT
          ![h].client_sender = Some(IpcSenderWithContextNew(ZELLIJ_IPC_PIPE)),
          ![h].registered = @ \cup {path}]
    /\ UNCHANGED << buffers, client, recv_lock, crashed, calls, received >>
    /\ UNCHANGED << tty_vars, pty_vars >>

\* Faulty variant: a registration whose new sender takes over the context
\* of the handle's own sender
AddClientSenderInherit(h, path) ==
    /\ h \in ServerHandles /\ ServerReady(h)
    /\ IF path \in DOMAIN buffers
       THEN /\ server' = [server EXCEPT
                  ![h].client_sender =
                      Some(update(IpcSenderWithContextNew(path), server[h].server_sender.err_ctx)),
                  ![h].registered = @ \cup {path}]
            /\ UNCHANGED crashed
       ELSE /\ Panic(ServerProc)
            /\ UNCHANGED server
    /\ UNCHANGED << buffers, client, recv_lock, calls, received >>
    /\ UNCHANGED << tty_vars, pty_vars >>

\* add_client_sender: SharedRingBuffer::open(path).unwrap(), then a new
\* sender replaces self.client_sender
AddClientSender(h, path) ==
    /\ h \in ServerHandles /\ ServerReady(h)
    /\ IF path \in DOMAIN buffers
       THEN /\ server' = [server EXCEPT
                  ![h].client_sender = Some(IpcSenderWithContextNew(path)),
                  ![h].registered = @ \cup {path}]
            /\ UNCHANGED crashed
       ELSE /\ Panic(ServerProc)
            /\ UNCHANGED server
    /\ UNCHANGED << buffers, client, recv_lock, calls, received >>
    /\ UNCHANGED << tty_vars, pty_vars >>

\* Faulty variant: an update that reaches into the buffers: the messages its
\* senders have in flight get the new context too
ServerUpdateSendersRetro(h, new_ctx) ==
    /\ h \in ServerHandles /\ ServerReady(h)
    /\ TotalCalls < MaxCalls
    /\ server' = [server EXCEPT
          ![h].server_sender = update(@, new_ctx),
          ![h].client_sender = IF IsSome(@) THEN Some(update(Unwrap(@), new_ctx)) ELSE @]
    /\ buffers' = [p \in DOMAIN buffers |->
          [i \in 1..Len(buffers[p]) |->
              IF buffers[p][i].id[1] \in {ServerSenderId(h), ClientSenderId(h)}
              THEN [buffers[p][i] EXCEPT !.err_ctx = new_ctx]
              ELSE buffers[p][i]]]
    /\ UNCHANGED << client, recv_lock, crashed, calls, received >>
    /\ UNCHANGED << tty_vars, pty_vars >>

\* Faulty variant: an update that reaches the senders of every handle, as if
\* the clones shared them
ServerUpdateSendersShared(h, new_ctx) ==
    /\ h \in ServerHandles /\ ServerReady(h)
    /\ TotalCalls < MaxCalls
    /\ server' = [g \in ServerHandles |->
          [server[g] EXCEPT
              !.server_sender = update(@, new_ctx),
              !.client_sender = IF IsSome(@) THEN Some(update(Unwrap(@), new_ctx)) ELSE @]]
    /\ UNCHANGED << buffers, client, recv_lock, crashed, calls, received >>
    /\ UNCHANGED << tty_vars, pty_vars >>

\* Faulty variant: an update that reaches the server's own sender only
ServerUpdateSendersOwnOnly(h, new_ctx) ==
    /\ h \in ServerHandles /\ ServerReady(h)
    /\ TotalCalls < MaxCalls
    /\ server' = [server EXCEPT ![h].server_sender = update(@, new_ctx)]
    /\ UNCHANGED << buffers, client, recv_lock, crashed, calls, received >>
    /\ UNCHANGED << tty_vars, pty_vars >>

\* update_senders on the server handle
ServerUpdateSenders(h, new_ctx) ==
    /\ h \in ServerHandles /\ ServerReady(h)
    /\ TotalCalls < MaxCalls
    /\ server' = [server EXCEPT
          ![h].server_sender = update(@, new_ctx),
          ![h].client_sender = IF IsSome(@) THEN Some(update(Unwrap(@), new_ctx)) ELSE @]
    /\ UNCHANGED << buffers, client, recv_lock, crashed, calls, received >>
    /\ UNCHANGED << tty_vars, pty_vars >>

(***************************************************************************)
(* ClientOsInputOutput                                                     *)
(***************************************************************************)
ClientHandles == 1..Len(client)
ClientReady(k) == client[k].proc \notin crashed
ClientId(k) == << "client", k, "server_sender" >>
\* temporary endpoints created so far
TempPaths == DOMAIN buffers \ {ZELLIJ_IPC_PIPE}
\* descriptor attribute value of a descriptor that is no terminal
ENOTTY == {"ENOTTY"}

\* get_client_os_input(): a new client process; fails at startup when
\* descriptor 0 is no terminal
GetClientOsInput ==
    /\ Len(client) < Cardinality(ClientHandleIds)
    /\ tio[0] # ENOTTY
    /\ LET k == Len(client) + 1
       IN  /\ client' = Append(client,
                  [proc |-> k,
                   server_sender |-> IpcSenderWithContextNew(ZELLIJ_IPC_PIPE),
                   client_receiver |-> None])
           /\ orig_termios' = [p \in DOMAIN orig_termios \cup {k} |->
                                  IF p = k THEN tio[0] ELSE orig_termios[p]]
           /\ raw_trace' = [p \in DOMAIN raw_trace \cup {k} |->
                               IF p = k THEN [phase |-> "captured", before |-> tio[0]]
                               ELSE raw_trace[p]]
    /\ UNCHANGED << buffers, server, recv_lock, crashed, calls, received >>
    /\ UNCHANGED << tio, pty_vars >>

\* box_clone: copies the sender, shares orig_termios and the receiver
ClientBoxClone(k) ==
    /\ k \in ClientHandles /\ ClientReady(k)
    /\ Len(client) < Cardinality(ClientHandleIds)
    /\ client' = Append(client, client[k])
    /\ UNCHANGED << buffers, server, recv_lock, crashed, calls, received >>
    /\ UNCHANGED << tty_vars, pty_vars >>

\* send_to_server
SendToServer(k, msg) ==
    /\ k \in ClientHandles /\ ClientReady(k)
    /\ SendUnwrap(client[k].proc, client[k].server_sender, msg, ClientId(k))
    /\ UNCHANGED << server, client, recv_lock, received >>
    /\ UNCHANGED << tty_vars, pty_vars >>

\* update_senders on the client handle
ClientUpdateSenders(k, new_ctx) ==
    /\ k \in ClientHandles /\ ClientReady(k)
    /\ TotalCalls < MaxCalls
    /\ client' = [client EXCEPT ![k].server_sender = update(@, new_ctx)]
    /\ UNCHANGED << buffers, server, recv_lock, crashed, calls, received >>
    /\ UNCHANGED << tty_vars, pty_vars >>

\* Faulty variant: a connect that announces a path and neither creates the
\* endpoint nor keeps a receiver
ConnectToServerAnnounceOnly(k, full_screen_ws) ==
    /\ k \in ClientHandles /\ ClientReady(k)
    /\ Cardinality(TempPaths) < Cardinality(ClientHandleIds)
    /\ LET client_buffer_path == Cardinality(TempPaths) + 1
       IN  SendUnwrap(client[k].proc, client[k].server_sender,
                      NewClient(client_buffer_path, full_screen_ws), ClientId(k))
    /\ UNCHANGED << server, client, recv_lock, received >>
    /\ UNCHANGED << tty_vars, pty_vars >>

\* connect_to_server: create_temp, keep the receiver, announce the path
ConnectToServer(k, full_screen_ws) ==
    /\ k \in ClientHandles /\ ClientReady(k)
    /\ Cardinality(TempPaths) < Cardinality(ClientHandleIds)
    /\ TotalCalls < MaxCalls
    /\ LET client_buffer_path == Cardinality(TempPaths) + 1
           id == << ClientId(k), Len(calls[ClientId(k)]) + 1 >>
           msg == NewClient(client_buffer_path, full_screen_ws)
           res == IpcSend(buffers[ZELLIJ_IPC_PIPE], send(client[k].server_sender, msg, id))
       IN  /\ client' = [client EXCEPT ![k].client_receiver = Some(client_buffer_path)]
           /\ buffers' = [p \in DOMAIN buffers \cup {client_buffer_path} |->
                             IF p = client_buffer_path THEN << >>
                             ELSE IF p = ZELLIJ_IPC_PIPE THEN res.buf
                             ELSE buffers[p]]
           /\ calls' = [calls EXCEPT ![ClientId(k)] = Append(@,
                            [to |-> ZELLIJ_IPC_PIPE, msg |-> msg,
                             err_ctx |-> client[k].server_sender.err_ctx,
                             outcome |-> unwrap(res)])]
           /\ received' = [p \in DOMAIN buffers \cup {client_buffer_path} |->
                             IF p = client_buffer_path THEN << >> ELSE received[p]]
           /\ crashed' = IF unwrap(res) = "panicked"
                         THEN crashed \cup {client[k].proc} ELSE crashed
    /\ UNCHANGED << server, recv_lock >>
    /\ UNCHANGED << tty_vars, pty_vars >>

\* client_recv: client_receiver.as_ref().unwrap().lock().unwrap().recv().unwrap()
ClientRecv(k) ==
    /\ k \in ClientHandles /\ ClientReady(k)
    /\ IF IsSome(client[k].client_receiver)
       THEN LET p == Unwrap(client[k].client_receiver)
                r == IpcRecv(buffers[p])
            IN  /\ buffers[p] # << >>
                /\ buffers' = [buffers EXCEPT ![p] = r.buf]
                /\ received' = [received EXCEPT ![p] = Append(@,
                       [by |-> << "client", k >>,
                        msg |-> r.frame.msg, err_ctx |-> r.frame.err_ctx, id |-> r.frame.id])]
                /\ UNCHANGED crashed
       ELSE /\ Panic(client[k].proc)
            /\ UNCHANGED << buffers, received >>
    /\ UNCHANGED << server, client, recv_lock, calls >>
    /\ UNCHANGED << tty_vars, pty_vars >>

(***************************************************************************)
(* The channel specification                                               *)
(***************************************************************************)
\* attributes of a cooked terminal
CookedTermios == {"ICANON", "ECHO", "HUPCL"}

InitIpc ==
    /\ buffers = [p \in {ZELLIJ_IPC_PIPE} |-> << >>]
    /\ server = << GetServerOsInput >>
    /\ client = << >>
    /\ recv_lock = 0
    /\ crashed = {}
    /\ calls = [s \in SenderIds |-> << >>]
    /\ received = [p \in {ZELLIJ_IPC_PIPE} |-> << >>]

(***************************************************************************)
(* Terminal mode controller                                                *)
(***************************************************************************)
Fds == {0, 1}
TermiosFlags == {"ICANON", "ECHO", "CS8", "HUPCL"}
Termios == SUBSET TermiosFlags

\* termios::cfmakeraw: clears the input, output and local processing flags
\* and selects 8-bit characters; the other flags stay
cfmakeraw(t) == (t \ {"ICANON", "ECHO"}) \cup {"CS8"}

\* into_raw_mode(fd): the attributes of fd after tcgetattr, cfmakeraw, tcsetattr
into_raw_mode(t, fd) == [t EXCEPT ![fd] = cfmakeraw(@)]

\* Faulty variant: a restore to the cooked default instead of the captured set
unset_raw_mode_cooked(t, fd, orig) == [t EXCEPT ![fd] = {"ICANON", "ECHO", "HUPCL"}]

\* unset_raw_mode(fd, orig_termios): the attributes after tcsetattr
unset_raw_mode(t, fd, orig) == [t EXCEPT ![fd] = orig]

\* raw_trace, for the client process p: where p stands in the sequence
\* capture, set_raw_mode(0), unset_raw_mode(0), and the attributes descriptor
\* 0 had before set_raw_mode; a change of descriptor 0 by another process
\* outside the raw phase takes every other process out of the sequence
Disturb(trace, p, fd) ==
    [q \in DOMAIN trace |->
        IF q # p /\ fd = 0 /\ trace[q].phase \in {"captured", "restored"}
        THEN [trace[q] EXCEPT !.phase = "other"] ELSE trace[q]]

\* set_raw_mode(fd) on a client handle
SetRawMode(k, fd) ==
    /\ k \in ClientHandles /\ ClientReady(k)
    /\ LET p == client[k].proc IN
       IF tio[fd] = ENOTTY
       THEN /\ Panic(p)
            /\ UNCHANGED << tio, raw_trace >>
       ELSE /\ tio' = into_raw_mode(tio, fd)
            /\ raw_trace' = [Disturb(raw_trace, p, fd) EXCEPT ![p] =
                  IF fd # 0 THEN @
                  ELSE IF @.phase = "captured"
                       THEN [phase |-> "raw", before |-> tio[0]]
                       ELSE [@ EXCEPT !.phase = "other"]]
            /\ UNCHANGED crashed
    /\ UNCHANGED << buffers, server, client, recv_lock, calls, received >>
    /\ UNCHANGED << orig_termios, pty_vars >>

\* unset_raw_mode(fd) on a client handle
UnsetRawMode(k, fd) ==
    /\ k \in ClientHandles /\ ClientReady(k)
    /\ LET p == client[k].proc IN
       IF tio[fd] = ENOTTY
       THEN /\ Panic(p)
            /\ UNCHANGED << tio, raw_trace >>
       ELSE /\ tio' = unset_raw_mode(tio, fd, orig_termios[p])
            /\ raw_trace' = [Disturb(raw_trace, p, fd) EXCEPT ![p] =
                  IF fd # 0 THEN @
                  ELSE IF @.phase = "raw"
                       THEN [@ EXCEPT !.phase = "restored"]
                       ELSE [@ EXCEPT !.phase = "other"]]
            /\ UNCHANGED crashed
    /\ UNCHANGED << buffers, server, client, recv_lock, calls, received >>
    /\ UNCHANGED << orig_termios, pty_vars >>

(***************************************************************************)
(* PTY process manager                                                     *)
(***************************************************************************)
SessionIds == 1..MaxSessions
EnvValues == {"unset", "valid", "invalid"}

\* a session slot before forkpty
NoSession ==
    [file_to_open |-> FALSE,   \* Some(path) or None
     pty |-> "none",           \* "none" | "open"
     nonblock |-> FALSE,       \* O_NONBLOCK on the primary descriptor
     returned |-> FALSE,       \* spawn_terminal returned (primary, pid)
     mgr |-> "none",           \* the forked manager: none | running | zombie | reaped
     pc |-> "none",            \* the manager's position
     handler |-> FALSE,        \* signal_hook registered for SIGINT
     pending |-> FALSE,        \* a SIGINT waits in signals.pending()
     prog |-> "none",          \* the shell or editor: none | running | zombie | reaped
     signalled |-> FALSE,      \* history: kill(pid) sent its SIGINT
     killed |-> FALSE,         \* history: kill(pid) returned Ok
     out |-> FALSE,            \* output of the program waits on the primary side
     io |-> "none"]            \* result of the caller's last read or write

CallerReady == ServerProc \notin crashed /\ caller.pc = "idle"

\* spawn_terminal, parent: forkpty(None, Some(&orig_termios)) returns Ok in
\* the parent; the pseudo-terminal exists and the manager process runs
ForkPty(s, file_to_open) ==
    /\ CallerReady
    /\ s \in SessionIds /\ sessions[s].mgr = "none"
    /\ \A r \in SessionIds : r < s => sessions[r].mgr # "none"
    /\ sessions' = [sessions EXCEPT ![s] =
          [@ EXCEPT !.file_to_open = file_to_open, !.pty = "open",
                    !.mgr = "running", !.pc = "child"]]
    /\ caller' = [pc |-> "forked", s |-> s]
    /\ UNCHANGED << ipc_vars, tty_vars, env >>

\* spawn_terminal, parent: forkpty returns Err: panic!("failed to fork")
ForkPtyErr ==
    /\ CallerReady
    /\ \E s \in SessionIds : sessions[s].mgr = "none"
    /\ Panic(ServerProc)
    /\ UNCHANGED << buffers, server, client, recv_lock, calls, received >>
    /\ UNCHANGED << tty_vars, pty_vars >>

\* Faulty variant: the parent returns the pair and leaves the descriptor
\* as forkpty opened it
SetNonBlockSkipped ==
    /\ ServerProc \notin crashed
    /\ caller.pc = "forked"
    /\ sessions' = [sessions EXCEPT ![caller.s] = [@ EXCEPT !.returned = TRUE]]
    /\ caller' = [pc |-> "idle", s |-> 0]
    /\ UNCHANGED << ipc_vars, tty_vars, env >>

\* spawn_terminal, parent: fcntl(pid_primary, F_SETFL(O_NONBLOCK)), then the
\* pair (pid_primary, child) is returned
SetNonBlock ==
    /\ ServerProc \notin crashed
    /\ caller.pc = "forked"
    /\ sessions' = [sessions EXCEPT ![caller.s] =
          [@ EXCEPT !.nonblock = TRUE, !.returned = TRUE]]
    /\ caller' = [pc |-> "idle", s |-> 0]
    /\ UNCHANGED << ipc_vars, tty_vars, env >>

\* what a SIGINT does to the manager: with the signal_hook handler
\* registered it is queued for signals.pending(); before that the default
\* disposition terminates the process; a zombie is not affected
DeliverSigint(m) ==
    IF m.mgr # "running" THEN m
    ELSE IF m.handler THEN [m EXCEPT !.pending = TRUE]
    ELSE [m EXCEPT !.mgr = "zombie", !.pc = "signal"]

\* the manager's exit by panic or by process::exit(0)
MgrDies(m, how) == [m EXCEPT !.mgr = "zombie", !.pc = how]

\* spawn_terminal, child branch: choose the program and Command::spawn it
MgrSpawn(s) ==
    /\ s \in SessionIds /\ sessions[s].mgr = "running" /\ sessions[s].pc = "child"
    /\ LET m == sessions[s]
           editor == IF env.EDITOR # "unset" THEN env.EDITOR ELSE env.VISUAL
           program == IF m.file_to_open THEN editor ELSE env.SHELL
       IN  sessions' = [sessions EXCEPT ![s] =
              IF m.file_to_open /\ env.EDITOR = "unset" /\ env.VISUAL = "unset"
              THEN MgrDies(m, "panic")
              ELSE IF program = "unset" THEN MgrDies(m, "panic")
              ELSE IF program = "invalid" THEN MgrDies(m, "panic")
              ELSE [m EXCEPT !.prog = "running", !.pc = "spawned"]]
    /\ UNCHANGED << ipc_vars, tty_vars, env, caller >>

\* handle_command_exit: Signals::new(&[SIGINT])
MgrRegister(s) ==
    /\ s \in SessionIds /\ sessions[s].mgr = "running" /\ sessions[s].pc = "spawned"
    /\ sessions' = [sessions EXCEPT ![s] = [@ EXCEPT !.handler = TRUE, !.pc = "try_wait"]]
    /\ UNCHANGED << ipc_vars, tty_vars, env, caller >>

\* Faulty variant: a status check that never sees the exit of the program
MgrTryWaitBlind(s) ==
    /\ s \in SessionIds /\ sessions[s].mgr = "running" /\ sessions[s].pc = "try_wait"
    /\ sessions' = [sessions EXCEPT ![s] = [@ EXCEPT !.pc = "pending"]]
    /\ UNCHANGED << ipc_vars, tty_vars, env, caller >>

\* handle_command_exit: child.try_wait(); Ok(Some) breaks, Ok(None) sleeps
MgrTryWait(s) ==
    /\ s \in SessionIds /\ sessions[s].mgr = "running" /\ sessions[s].pc = "try_wait"
    /\ sessions' = [sessions EXCEPT ![s] =
          IF @.prog = "zombie"
          THEN [@ EXCEPT !.prog = "reaped", !.pc = "exit"]
          ELSE [@ EXCEPT !.pc = "pending"]]
    /\ UNCHANGED << ipc_vars, tty_vars, env, caller >>

\* handle_command_exit: for signal in signals.pending()
MgrPending(s) ==
    /\ s \in SessionIds /\ sessions[s].mgr = "running" /\ sessions[s].pc = "pending"
    /\ sessions' = [sessions EXCEPT ![s] =
          IF @.pending
          THEN [@ EXCEPT !.pending = FALSE, !.pc = "kill"]
          ELSE [@ EXCEPT !.pc = "try_wait"]]
    /\ UNCHANGED << ipc_vars, tty_vars, env, caller >>

\* handle_command_exit: child.kill().unwrap() sends SIGKILL
MgrKill(s) ==
    /\ s \in SessionIds /\ sessions[s].mgr = "running" /\ sessions[s].pc = "kill"
    /\ sessions' = [sessions EXCEPT ![s] =
          [@ EXCEPT !.prog = IF @ = "running" THEN "zombie" ELSE @, !.pc = "wait"]]
    /\ UNCHANGED << ipc_vars, tty_vars, env, caller >>

\* handle_command_exit: child.wait().unwrap() blocks until the program is dead
MgrWait(s) ==
    /\ s \in SessionIds /\ sessions[s].mgr = "running" /\ sessions[s].pc = "wait"
    /\ sessions[s].prog = "zombie"
    /\ sessions' = [sessions EXCEPT ![s] = [@ EXCEPT !.prog = "reaped", !.pc = "exit"]]
    /\ UNCHANGED << ipc_vars, tty_vars, env, caller >>

\* spawn_terminal, child branch: ::std::process::exit(0)
MgrExit(s) ==
    /\ s \in SessionIds /\ sessions[s].mgr = "running" /\ sessions[s].pc = "exit"
    /\ sessions' = [sessions EXCEPT ![s] = MgrDies(@, "exit0")]
    /\ UNCHANGED << ipc_vars, tty_vars, env, caller >>

\* the shell or editor ends on its own
ProgExit(s) ==
    /\ s \in SessionIds /\ sessions[s].prog = "running"
    /\ sessions' = [sessions EXCEPT ![s] = [@ EXCEPT !.prog = "zombie"]]
    /\ UNCHANGED << ipc_vars, tty_vars, env, caller >>

\* kill(pid), first statement: kill(Pid::from_raw(pid), Some(SIGINT)).unwrap()
KillSignal(s) ==
    /\ CallerReady
    /\ s \in SessionIds /\ sessions[s].returned
    /\ IF sessions[s].mgr = "reaped"
       THEN /\ Panic(ServerProc)
            /\ UNCHANGED << sessions, caller >>
       ELSE /\ sessions' = [sessions EXCEPT ![s] =
                  [DeliverSigint(@) EXCEPT !.signalled = TRUE]]
            /\ caller' = [pc |-> "kill_wait", s |-> s]
            /\ UNCHANGED crashed
    /\ UNCHANGED << buffers, server, client, recv_lock, calls, received >>
    /\ UNCHANGED << tty_vars, env >>

\* Faulty variant: a wait that does not block: it returns whether or not the
\* manager has exited
KillWaitNoHang ==
    /\ ServerProc \notin crashed
    /\ caller.pc = "kill_wait"
    /\ sessions' = [sessions EXCEPT ![caller.s] =
          [@ EXCEPT !.mgr = IF @ = "zombie" THEN "reaped" ELSE @, !.killed = TRUE]]
    /\ caller' = [pc |-> "idle", s |-> 0]
    /\ UNCHANGED << ipc_vars, tty_vars, env >>

\* kill(pid), second statement: waitpid(Pid::from_raw(pid), None).unwrap()
\* blocks until the manager has exited and reaps it; then Ok(())
KillWait ==
    /\ ServerProc \notin crashed
    /\ caller.pc = "kill_wait"
    /\ sessions[caller.s].mgr = "zombie"
    /\ sessions' = [sessions EXCEPT ![caller.s] =
          [@ EXCEPT !.mgr = "reaped", !.killed = TRUE]]
    /\ caller' = [pc |-> "idle", s |-> 0]
    /\ UNCHANGED << ipc_vars, tty_vars, env >>

\* some process still has the secondary side open: the manager got it as its
\* terminal from forkpty and the program inherited it
SecondaryOpen(s) == sessions[s].mgr = "running" \/ sessions[s].prog = "running"

\* the program writes to its terminal
ProgWrite(s) ==
    /\ s \in SessionIds /\ sessions[s].prog = "running"
    /\ ~sessions[s].out
    /\ sessions' = [sessions EXCEPT ![s] = [@ EXCEPT !.out = TRUE]]
    /\ UNCHANGED << ipc_vars, tty_vars, env, caller >>

\* read_from_tty_stdout(fd, buf): unistd::read(fd, buf) on a primary
\* descriptor the caller got from spawn_terminal
ReadFromTtyStdout(s) ==
    /\ CallerReady
    /\ s \in SessionIds /\ sessions[s].returned
    /\ IF sessions[s].out
       THEN /\ sessions' = [sessions EXCEPT ![s] = [@ EXCEPT !.out = FALSE, !.io = "data"]]
            /\ UNCHANGED caller
       ELSE IF ~SecondaryOpen(s)
       THEN /\ sessions' = [sessions EXCEPT ![s] = [@ EXCEPT !.io = "EIO"]]
            /\ UNCHANGED caller
       ELSE IF sessions[s].nonblock
       THEN /\ sessions' = [sessions EXCEPT ![s] = [@ EXCEPT !.io = "EAGAIN"]]
            /\ UNCHANGED caller
       ELSE /\ caller' = [pc |-> "blocked", s |-> s]
            /\ UNCHANGED sessions
    /\ UNCHANGED << ipc_vars, tty_vars, env >>

\* write_to_tty_stdin(fd, buf): unistd::write(fd, buf) on a primary
\* descriptor the caller got from spawn_terminal; whether the input queue of
\* the pseudo-terminal has room is up to the kernel and the reader
WriteToTtyStdin(s, room) ==
    /\ CallerReady
    /\ s \in SessionIds /\ sessions[s].returned
    /\ IF room
       THEN /\ sessions' = [sessions EXCEPT ![s] = [@ EXCEPT !.io = "written"]]
            /\ UNCHANGED caller
       ELSE IF sessions[s].nonblock
       THEN /\ sessions' = [sessions EXCEPT ![s] = [@ EXCEPT !.io = "EAGAIN"]]
            /\ UNCHANGED caller
       ELSE /\ caller' = [pc |-> "blocked", s |-> s]
            /\ UNCHANGED sessions
    /\ UNCHANGED << ipc_vars, tty_vars, env >>

(***************************************************************************)
(* Specifications                                                          *)
(***************************************************************************)
IdlePty ==
    /\ sessions = [s \in SessionIds |-> NoSession]
    /\ caller = [pc |-> "idle", s |-> 0]

\* the channel and the handles, on a cooked terminal, no PTY session
Init ==
    /\ InitIpc
    /\ tio = [fd \in Fds |-> CookedTermios]
    /\ orig_termios = [p \in {ServerProc} |-> CookedTermios]
    /\ raw_trace = << >>
    /\ env = [EDITOR |-> "unset", VISUAL |-> "unset", SHELL |-> "valid"]
    /\ IdlePty

Next ==
    \/ \E h \in ServerHandles : ServerExit(h)
    \/ \E h \in ServerHandles : ServerRecvLock(h)
    \/ \E h \in ServerHandles : ServerRecv(h)
    \/ \E h \in ServerHandles, n \in ClientInstructionNames : SendToClient(h, Instr(n))
    \/ \E h \in ServerHandles, p \in Announced : AddClientSender(h, p)
    \/ \E h \in ServerHandles, c \in ErrorContexts : ServerUpdateSenders(h, c)
    \/ GetClientOsInput
    \/ \E k \in ClientHandles, n \in ServerInstructionNames : SendToServer(k, Instr(n))
    \/ \E k \in ClientHandles, c \in ErrorContexts : ClientUpdateSenders(k, c)
    \/ \E k \in ClientHandles, ws \in Geometries : ConnectToServer(k, ws)
    \/ \E k \in ClientHandles : ClientRecv(k)

Spec == Init /\ [][Next]_vars

\* the terminal mode controller: every attribute set of the descriptors
InitTty ==
    /\ InitIpc
    /\ tio \in [Fds -> Termios \cup {ENOTTY}]
    /\ orig_termios = [p \in {ServerProc} |-> CookedTermios]
    /\ raw_trace = << >>
    /\ env = [EDITOR |-> "unset", VISUAL |-> "unset", SHELL |-> "valid"]
    /\ IdlePty

NextTty ==
    \/ GetClientOsInput
    \/ \E k \in ClientHandles, fd \in Fds : SetRawMode(k, fd)
    \/ \E k \in ClientHandles, fd \in Fds : UnsetRawMode(k, fd)

SpecTty == InitTty /\ [][NextTty]_vars

\* the PTY process manager: every environment
InitPty ==
    /\ InitIpc
    /\ tio = [fd \in Fds |-> CookedTermios]
    /\ orig_termios = [p \in {ServerProc} |-> CookedTermios]
    /\ raw_trace = << >>
    /\ env \in [{"EDITOR", "VISUAL", "SHELL"} -> EnvValues]
    /\ IdlePty

NextMgr(s) ==
    \/ MgrSpawn(s)
    \/ MgrRegister(s)
    \/ MgrTryWait(s)
    \/ MgrPending(s)
    \/ MgrKill(s)
    \/ MgrWait(s)
    \/ MgrExit(s)

NextPty ==
    \/ \E s \in SessionIds, f \in BOOLEAN : ForkPty(s, f)
    \/ ForkPtyErr
    \/ SetNonBlock
    \/ \E s \in SessionIds : NextMgr(s)
    \/ \E s \in SessionIds : ProgExit(s)
    \/ \E s \in SessionIds : KillSignal(s)
    \/ KillWait

SpecPty == InitPty /\ [][NextPty]_vars

\* the PTY process manager with the caller reading and writing the primary
\* descriptors it holds
NextPtyIo ==
    \/ NextPty
    \/ \E s \in SessionIds : ProgWrite(s)
    \/ \E s \in SessionIds : ReadFromTtyStdout(s)
    \/ \E s \in SessionIds, room \in BOOLEAN : WriteToTtyStdin(s, room)

SpecPtyIo == InitPty /\ [][NextPtyIo]_vars

\* the kernel schedules the manager and the waiting caller: a step of either
\* that stays possible is eventually taken; the program may run forever
FairSpecPty ==
    /\ SpecPty
    /\ \A s \in SessionIds : WF_vars(NextMgr(s))
    /\ WF_vars(KillWait)

\* the handles handed to several threads: the server's handle and a clone of
\* it, client handles and their clones; a smaller budget of send calls
CloneBudget == TotalCalls < MaxCloneCalls

NextClone ==
    \/ \E h \in ServerHandles : ServerBoxClone(h)
    \/ \E h \in ServerHandles : CloneBudget /\ ServerExit(h)
    \/ \E h \in ServerHandles : ServerRecvLock(h)
    \/ \E h \in ServerHandles : ServerRecv(h)
    \/ \E h \in ServerHandles, n \in ClientInstructionNames :
          CloneBudget /\ SendToClient(h, Instr(n))
    \/ \E h \in ServerHandles, p \in Announced : AddClientSender(h, p)
    \/ \E h \in ServerHandles, c \in ErrorContexts :
          CloneBudget /\ ServerUpdateSenders(h, c)
    \/ GetClientOsInput
    \/ \E k \in ClientHandles : ClientBoxClone(k)
    \/ \E k \in ClientHandles, n \in ServerInstructionNames :
          CloneBudget /\ SendToServer(k, Instr(n))
    \/ \E k \in ClientHandles, c \in ErrorContexts :
          CloneBudget /\ ClientUpdateSenders(k, c)
    \/ \E k \in ClientHandles, ws \in Geometries :
          CloneBudget /\ ConnectToServer(k, ws)
    \/ \E k \in ClientHandles : ClientRecv(k)

SpecClone == Init /\ [][NextClone]_vars

(***************************************************************************)
(* Histories read by the properties                                        *)
(***************************************************************************)
\* the calls of sender s, each with the id its frame carries
CallsOf(s) ==
    [n \in 1..Len(calls[s]) |->
        [to |-> calls[s][n].to, msg |-> calls[s][n].msg, err_ctx |-> calls[s][n].err_ctx,
         outcome |-> calls[s][n].outcome, id |-> << s, n >>]]

Pair(e) == [msg |-> e.msg, err_ctx |-> e.err_ctx, id |-> e.id]
Pairs(q) == [i \in 1..Len(q) |-> Pair(q[i])]

\* what sender s passed to the send calls that returned, for buffer p, in
\* call order
SentTo(s, p) ==
    LET Ok(c) == c.to = p /\ c.outcome = "returned"
    IN  Pairs(SelectSeq(CallsOf(s), Ok))

\* what the recv calls on buffer p returned of sender s, in recv order
RecvFrom(s, p) ==
    LET Mine(e) == e.id[1] = s
    IN  Pairs(SelectSeq(received[p], Mine))

\* the frames of sender s still in buffer p, oldest first
InFlight(s, p) ==
    LET Mine(e) == e.id[1] = s
    IN  Pairs(SelectSeq(buffers[p], Mine))

IsPrefix(a, b) == Len(a) <= Len(b) /\ \A i \in 1..Len(a) : a[i] = b[i]

\* the number of places of q that hold the frame of call id
Count(q, id) == Cardinality({ i \in 1..Len(q) : q[i].id = id })

\* the err_ctx a sender holds now (none for a client_sender that is not set)
CurrentCtx(s) ==
    IF s[1] = "client"
    THEN IF s[2] \in ClientHandles THEN Some(client[s[2]].server_sender.err_ctx) ELSE None
    ELSE IF s[2] \notin ServerHandles THEN None
    ELSE IF s[3] = "server_sender" THEN Some(server[s[2]].server_sender.err_ctx)
    ELSE IF IsSome(server[s[2]].client_sender)
         THEN Some(Unwrap(server[s[2]].client_sender).err_ctx) ELSE None

\* the process a sender belongs to
ProcOf(s) == IF s[1] = "server" THEN ServerProc ELSE client[s[2]].proc

(***************************************************************************)
(* C1: what the recv calls on a buffer return of one sender is, in order,  *)
(* a prefix of what that sender sent to the buffer, each message paired    *)
(* with the err_ctx the sender held when send was called.                  *)
(***************************************************************************)
C1_RecvInSendOrder ==
    \A s \in SenderIds : \A p \in DOMAIN buffers :
        IsPrefix(RecvFrom(s, p), SentTo(s, p))

\* a sender sent twice with an update in between, both messages were
\* received, and the sender holds yet another context than the first's
C1_Witness ==
    \E s \in SenderIds : \E p \in DOMAIN buffers :
        /\ Len(RecvFrom(s, p)) >= 2
        /\ RecvFrom(s, p)[1].err_ctx # RecvFrom(s, p)[2].err_ctx
        /\ CurrentCtx(s) = Some(RecvFrom(s, p)[1].err_ctx)

(***************************************************************************)
(* C2: a step that changes the err_ctx a sender holds leaves every buffer, *)
(* every message in it and both histories as they are: nothing is          *)
(* rewritten, enqueued or removed.                                         *)
(***************************************************************************)
CtxChanges ==
    \E s \in SenderIds :
        /\ IsSome(CurrentCtx(s))
        /\ IsSome(CurrentCtx(s)')
        /\ CurrentCtx(s)' # CurrentCtx(s)

C2_UpdateFrame ==
    [][CtxChanges => /\ buffers' = buffers
                     /\ calls' = calls
                     /\ received' = received]_vars

\* a message sent before an update is still in its buffer with the context
\* of its send, while its sender holds another one
C2_Witness ==
    \E s \in SenderIds : \E p \in DOMAIN buffers :
        /\ Len(InFlight(s, p)) >= 1
        /\ IsSome(CurrentCtx(s))
        /\ CurrentCtx(s) # Some(InFlight(s, p)[1].err_ctx)
        /\ InFlight(s, p)[1].err_ctx = "ctx1"

(***************************************************************************)
(* C3: once a client has connected (endpoint p created, receiver kept,     *)
(* NewClient(p, ws) sent), the server has received the announcement and    *)
(* add_client_sender(p) has run on a handle, every send_to_client of a     *)
(* message that fits goes through that handle's sender without a panic     *)
(* and lands in the endpoint p; what client_recv returns from p is, in     *)
(* order, what was sent to p, received by a handle of the client that      *)
(* announced p.                                                            *)
(***************************************************************************)
\* the client handles whose process announced path p
AnnouncedBy(p) ==
    { k \in ClientHandles : \E n \in 1..Len(calls[ClientId(k)]) :
          calls[ClientId(k)][n].msg.type = "NewClient" /\ calls[ClientId(k)][n].msg.path = p }

C3_HandshakeDelivers ==
    \A h \in ServerHandles :
        LET s == ClientSenderId(h) IN
        \A n \in 1..Len(calls[s]) :
            LET c == calls[s][n]
                p == c.to
            IN  p # -1 =>
                /\ p \in TempPaths /\ p \in Announced /\ p \in server[h].registered
                /\ AnnouncedBy(p) # {}
                /\ Size(c.msg) <= IPC_BUFFER_SIZE => c.outcome = "returned"
                /\ c.outcome = "returned" =>
                      Count(buffers[p], << s, n >>) + Count(received[p], << s, n >>) = 1
                /\ IsPrefix(RecvFrom(s, p), SentTo(s, p))
                /\ \A i \in 1..Len(received[p]) :
                      /\ received[p][i].by[1] = "client"
                      /\ received[p][i].by[2] \in AnnouncedBy(p)

\* the first message the server sent after the handshake is the first one
\* the connected client got from its endpoint
C3_Witness ==
    \E p \in TempPaths : \E k \in ClientHandles :
        /\ client[k].client_receiver = Some(p)
        /\ Len(received[p]) >= 1
        /\ received[p][1].by = << "client", k >>
        /\ received[p][1].id = << ClientSenderId(1), 1 >>
        /\ received[p][1].msg = Instr("Render")

(***************************************************************************)
(* C4: when the endpoints registered on a server handle with               *)
(* add_client_sender are the endpoints of distinct clients, each holding   *)
(* the endpoint it announced, every one of these clients is still reached  *)
(* by that handle: send_to_client delivers to that client's endpoint,      *)
(* whatever other clients registered since.                                *)
(***************************************************************************)
\* the buffer a send_to_client on handle h writes to (none: it panics)
DeliversTo(h) ==
    IF IsSome(server[h].client_sender)
    THEN Some(Unwrap(server[h].client_sender).sender) ELSE None

\* the client handles that hold the endpoint p they created
HoldersOf(p) == { k \in ClientHandles : client[k].client_receiver = Some(p) }

HandshakesByDistinctClients(h) ==
    \A p \in server[h].registered : HoldersOf(p) # {}

C4_StaysRegistered ==
    \A h \in ServerHandles :
        HandshakesByDistinctClients(h) =>
            \A p \in server[h].registered : DeliversTo(h) = Some(p)

(***************************************************************************)
(* C5: a spawn_terminal call with a file to open, made while neither       *)
(* EDITOR nor VISUAL is set, never has a pseudo-terminal allocated nor a   *)
(* process forked.                                                         *)
(***************************************************************************)
NoEditor == env.EDITOR = "unset" /\ env.VISUAL = "unset"

C5_NoEditorNoFork ==
    \A s \in SessionIds :
        (sessions[s].file_to_open /\ NoEditor) =>
            /\ sessions[s].pty = "none"
            /\ sessions[s].mgr = "none"
            /\ (caller.s = s => caller.pc # "forked")

(***************************************************************************)
(* C6: for a session spawned with no file to open and SHELL defined, the   *)
(* pid spawn_terminal returned names the forked manager process, which     *)
(* exists and has not been reaped until kill(pid) reaps it; kill(pid)      *)
(* sends the interrupt before it waits; a kill(pid) that waits eventually  *)
(* returns; and once it has returned the process is reaped, not running.   *)
(***************************************************************************)
ShellSession(s) == ~sessions[s].file_to_open /\ env.SHELL # "unset"

C6_KillOrder ==
    \A s \in SessionIds : ShellSession(s) =>
        /\ (sessions[s].returned /\ ~sessions[s].signalled)
              => sessions[s].mgr \in {"running", "zombie"}
        /\ (caller.pc = "kill_wait" /\ caller.s = s) => sessions[s].signalled
        /\ sessions[s].mgr = "reaped" => sessions[s].signalled
        /\ sessions[s].killed => sessions[s].mgr = "reaped"

C7_ManagerOutlivesProgram ==
    \A s \in SessionIds :
        sessions[s].mgr \in {"zombie", "reaped"} =>
            sessions[s].prog \in {"none", "reaped"}

(***************************************************************************)
(* C8: for every attribute set of descriptor 0: a client process that      *)
(* captured the attributes at startup, then called set_raw_mode(0) and     *)
(* then unset_raw_mode(0) finds descriptor 0 with the attributes it had    *)
(* before set_raw_mode.                                                    *)
(***************************************************************************)
C8_RawRoundTrip ==
    \A p \in DOMAIN raw_trace :
        raw_trace[p].phase = "restored" => tio[0] = raw_trace[p].before

\* a round trip that went through a raw mode different from the captured
\* attributes, which are not the cooked default either
C8_Witness ==
    \E p \in DOMAIN raw_trace :
        /\ raw_trace[p].phase = "restored"
        /\ raw_trace[p].before # cfmakeraw(raw_trace[p].before)
        /\ raw_trace[p].before # CookedTermios
        /\ tio[0] = orig_termios[p]

(***************************************************************************)
(* C9: under every interleaving of the senders, each pair a recv call      *)
(* returned is the pair one send call passed: the payload and the context  *)
(* of the call whose frame it is, sent to the buffer it was received from. *)
(***************************************************************************)
C9_WholePairs ==
    \A p \in DOMAIN buffers : \A i \in 1..Len(received[p]) :
        LET e == received[p][i]
            s == e.id[1]
            n == e.id[2]
        IN  /\ s \in SenderIds
            /\ n \in 1..Len(calls[s])
            /\ calls[s][n].outcome = "returned"
            /\ calls[s][n].to = p
            /\ e.msg = calls[s][n].msg
            /\ e.err_ctx = calls[s][n].err_ctx

\* two clients have sent into the well-known buffer and the server into a
\* client's buffer, with different contexts, and all of it was received
C9_Witness ==
    /\ \E i, j \in 1..Len(received[ZELLIJ_IPC_PIPE]) :
          /\ received[ZELLIJ_IPC_PIPE][i].id[1] # received[ZELLIJ_IPC_PIPE][j].id[1]
          /\ received[ZELLIJ_IPC_PIPE][i].err_ctx # received[ZELLIJ_IPC_PIPE][j].err_ctx
    /\ \E p \in TempPaths : Len(received[p]) >= 1

(***************************************************************************)
(* C10: a send call that returned has its message exactly once, in the     *)
(* buffer it was sent to or among the pairs received from that buffer, and *)
(* nowhere else; a call that did not return terminated its process and     *)
(* left no message anywhere.                                               *)
(***************************************************************************)
C10_NoSilentLoss ==
    \A s \in SenderIds : \A n \in 1..Len(calls[s]) :
        LET c == calls[s][n]
            id == << s, n >>
        IN  /\ c.outcome = "returned" =>
                /\ c.to \in DOMAIN buffers
                /\ Count(buffers[c.to], id) + Count(received[c.to], id) = 1
            /\ c.outcome # "returned" => ProcOf(s) \in crashed
            /\ \A p \in DOMAIN buffers :
                  (p # c.to \/ c.outcome # "returned") =>
                      Count(buffers[p], id) + Count(received[p], id) = 0

\* one call failed and ended its process, another call returned and its
\* message has been received
C10_Witness ==
    /\ \E s \in SenderIds : \E n \in 1..Len(calls[s]) :
          calls[s][n].outcome = "panicked" /\ calls[s][n].to # -1
    /\ \E s \in SenderIds : \E n \in 1..Len(calls[s]) :
          /\ calls[s][n].outcome = "returned"
          /\ Count(received[calls[s][n].to], << s, n >>) = 1

(***************************************************************************)
(* C11: for every client, whatever it calls and in whatever order: the     *)
(* first message of that client that reaches the well-known endpoint is    *)
(* the NewClient(path, geometry) announcement of its connect_to_server.    *)
(***************************************************************************)
C11_AnnouncementFirst ==
    \A k \in ClientHandles :
        LET Reached(c) == c.to = ZELLIJ_IPC_PIPE /\ c.outcome = "returned"
            sent == SelectSeq(calls[ClientId(k)], Reached)
        IN  Len(sent) >= 1 => sent[1].msg.type = "NewClient"

(***************************************************************************)
(* C12: once add_client_sender(p) has run on one server handle (and no     *)
(* other endpoint was registered on any handle), send_to_client on every   *)
(* handle, the clones made before the registration included, delivers to   *)
(* the endpoint p.                                                         *)
(***************************************************************************)
\* the endpoints registered with add_client_sender on any server handle
RegisteredAnywhere == UNION { server[h].registered : h \in ServerHandles }

C12_ClonesShareSenders ==
    \A p \in RegisteredAnywhere :
        RegisteredAnywhere = {p} =>
            \A g \in ServerHandles : DeliversTo(g) = Some(p)

(***************************************************************************)
(* C13: the exit-watch loop of handle_command_exit.  It is left only with  *)
(* the program exited and reaped, never while the program still runs.      *)
(* Each status check sees an exit that has happened and each signal check  *)
(* sees an interrupt that is pending, so the loop is not repeated past     *)
(* either.  Under fair scheduling of the manager: once the program has     *)
(* exited or an interrupt is pending while the manager is in the loop, the *)
(* loop is left.                                                           *)
(***************************************************************************)
InLoop(s) ==
    /\ sessions[s].mgr = "running"
    /\ sessions[s].pc \in {"try_wait", "pending", "kill", "wait"}

LoopExited(s) == sessions[s].pc \in {"exit", "exit0"}

C13_Detects(s) ==
    /\ (sessions[s].pc = "try_wait" /\ sessions'[s].pc = "pending")
          => sessions[s].prog # "zombie"
    /\ (sessions[s].pc = "pending" /\ sessions'[s].pc = "try_wait")
          => ~sessions[s].pending

C13_ExitWatch ==
    /\ [](\A s \in SessionIds : LoopExited(s) => sessions[s].prog = "reaped")
    /\ [][\A s \in SessionIds : C13_Detects(s)]_vars
    /\ \A s \in SessionIds :
          (InLoop(s) /\ (sessions[s].prog = "zombie" \/ sessions[s].pending))
              ~> LoopExited(s)

\* the loop was left because the program ended on its own: no interrupt was
\* ever sent, the status check found the exit and reaped the program
C13_Witness ==
    \E s \in SessionIds :
        /\ LoopExited(s)
        /\ sessions[s].handler
        /\ ~sessions[s].signalled
        /\ sessions[s].prog = "reaped"

(***************************************************************************)
(* C14: update_senders(ctx) on a server handle leaves both the handle's    *)
(* own sender and its client sender (when one is registered) holding ctx,  *)
(* and on a client handle leaves the handle's sender holding ctx; the      *)
(* context a sender holds changes only by update_senders on its handle (or *)
(* when add_client_sender replaces the sender); and every message a sender *)
(* sends enters its buffer paired with the context the sender holds then.  *)
(* So the next message of each sender after update_senders(ctx) is         *)
(* received paired with ctx.                                               *)
(***************************************************************************)
\* update_senders puts ctx into every sender the handle holds
UpdateReachesAll ==
    /\ \A h \in ServerHandles : \A c \in ErrorContexts :
          ServerUpdateSenders(h, c) =>
              /\ CurrentCtx(ServerSenderId(h))' = Some(c)
              /\ IsSome(server[h].client_sender) => CurrentCtx(ClientSenderId(h))' = Some(c)
    /\ \A k \in ClientHandles : \A c \in ErrorContexts :
          ClientUpdateSenders(k, c) => CurrentCtx(ClientId(k))' = Some(c)

\* the context a sender holds is changed by nothing else
OnlyUpdateChangesCtx ==
    \A s \in SenderIds :
        (IsSome(CurrentCtx(s)) /\ IsSome(CurrentCtx(s)') /\ CurrentCtx(s)' # CurrentCtx(s)) =>
            IF s[1] = "client"
            THEN \E c \in ErrorContexts : ClientUpdateSenders(s[2], c)
            ELSE \/ \E c \in ErrorContexts : ServerUpdateSenders(s[2], c)
                 \/ /\ s[3] = "client_sender"
                    /\ \E p \in Announced : AddClientSender(s[2], p)

\* a send call that returns has put its message at the end of its buffer,
\* paired with the context its sender held at the call
SendPairsCurrentCtx ==
    \A s \in SenderIds :
        Len(calls'[s]) = Len(calls[s]) + 1 =>
            LET n == Len(calls'[s])
                c == calls'[s][n]
            IN  c.outcome = "returned" =>
                  /\ Some(c.err_ctx) = CurrentCtx(s)
                  /\ LET b == buffers'[c.to]
                     IN  /\ Len(b) >= 1
                         /\ b[Len(b)].id = << s, n >>
                         /\ b[Len(b)].err_ctx = c.err_ctx

C14_UpdateThenSend ==
    [][UpdateReachesAll /\ OnlyUpdateChangesCtx /\ SendPairsCurrentCtx]_vars

\* after update_senders(ctx1) on a handle with a registered client sender,
\* a message of each of its two senders was received paired with ctx1
C14_Witness ==
    \E h \in ServerHandles :
        /\ CurrentCtx(ServerSenderId(h)) = Some("ctx1")
        /\ CurrentCtx(ClientSenderId(h)) = Some("ctx1")
        /\ \E i \in 1..Len(received[ZELLIJ_IPC_PIPE]) :
              /\ received[ZELLIJ_IPC_PIPE][i].id[1] = ServerSenderId(h)
              /\ received[ZELLIJ_IPC_PIPE][i].err_ctx = "ctx1"
        /\ \E p \in TempPaths : \E i \in 1..Len(received[p]) :
              /\ received[p][i].id[1] = ClientSenderId(h)
              /\ received[p][i].err_ctx = "ctx1"

(***************************************************************************)
(* C15: with several server handles (clones) calling server_recv, the one  *)
(* inbound receiver is used by one caller at a time: every message sent to *)
(* the well-known buffer is either still in it or was returned by exactly  *)
(* one server_recv call, of one server handle, never by two and never      *)
(* dropped; and what was returned of one sender is, in order, a prefix of  *)
(* what that sender sent.                                                  *)
(***************************************************************************)
C15_RecvSerialized ==
    /\ recv_lock \in {0} \cup ServerHandles
    /\ \A i \in 1..Len(received[ZELLIJ_IPC_PIPE]) :
          /\ received[ZELLIJ_IPC_PIPE][i].by[1] = "server"
          /\ received[ZELLIJ_IPC_PIPE][i].by[2] \in ServerHandles
    /\ \A s \in SenderIds :
          /\ \A n \in 1..Len(calls[s]) :
                (calls[s][n].to = ZELLIJ_IPC_PIPE /\ calls[s][n].outcome = "returned") =>
                    Count(buffers[ZELLIJ_IPC_PIPE], << s, n >>)
                        + Count(received[ZELLIJ_IPC_PIPE], << s, n >>) = 1
          /\ IsPrefix(RecvFrom(s, ZELLIJ_IPC_PIPE), SentTo(s, ZELLIJ_IPC_PIPE))

\* two messages of one sender were returned to two different server
\* handles, while the handle that got the first one waits in server_recv
\* again
C15_Witness ==
    /\ Len(received[ZELLIJ_IPC_PIPE]) = 2
    /\ received[ZELLIJ_IPC_PIPE][1].id[1] = received[ZELLIJ_IPC_PIPE][2].id[1]
    /\ received[ZELLIJ_IPC_PIPE][1].by # received[ZELLIJ_IPC_PIPE][2].by
    /\ recv_lock = received[ZELLIJ_IPC_PIPE][1].by[2]

(***************************************************************************)
(* C16: whenever a NewClient(p, ws) message is in the well-known buffer or *)
(* has been received by the server, the endpoint p exists and the client   *)
(* handle that announced it holds a receiver (the one of p, unless it has  *)
(* connected again since); and every message sent to a client's endpoint   *)
(* stays in that buffer until a client_recv returns it: what client_recv   *)
(* has returned followed by what is in the buffer is what was sent, so the *)
(* first client_recv returns the first message sent.                       *)
(***************************************************************************)
\* the NewClient frames sent so far, waiting or received
AnnouncementFrames ==
    { f \in { buffers[ZELLIJ_IPC_PIPE][i] : i \in 1..Len(buffers[ZELLIJ_IPC_PIPE]) }
            \cup { Pair(received[ZELLIJ_IPC_PIPE][i]) : i \in 1..Len(received[ZELLIJ_IPC_PIPE]) } :
        f.msg.type = "NewClient" }

\* the endpoint a client handle announced last
LastAnnounced(k) ==
    LET IsNew(c) == c.msg.type = "NewClient"
        a == SelectSeq(calls[ClientId(k)], IsNew)
    IN  a[Len(a)].msg.path

NewSendersEmpty ==
    /\ \A s \in SenderIds :
          (~IsSome(CurrentCtx(s)) /\ IsSome(CurrentCtx(s)')) =>
              CurrentCtx(s)' = Some(ErrorContextNew)
    /\ \A h \in ServerHandles : \A p \in Announced :
          (AddClientSender(h, p) /\ crashed' = crashed) =>
              CurrentCtx(ClientSenderId(h))' = Some(ErrorContextNew)

C17_StartsEmpty ==
    /\ \A h \in ServerHandles : CurrentCtx(ServerSenderId(h)) = Some(ErrorContextNew)
    /\ [][NewSendersEmpty /\ OnlyUpdateChangesCtx /\ SendPairsCurrentCtx]_vars

\* a client sender created after update_senders(ctx1): its message was
\* received paired with the empty context while the handle's own sender
\* holds ctx1
C17_Witness ==
    \E h \in ServerHandles : \E p \in TempPaths :
        /\ CurrentCtx(ServerSenderId(h)) = Some("ctx1")
        /\ CurrentCtx(ClientSenderId(h)) = Some(ErrorContextNew)
        /\ Len(received[p]) >= 1
        /\ received[p][1].id = << ClientSenderId(h), 1 >>
        /\ received[p][1].err_ctx = ErrorContextNew

(***************************************************************************)
(* C18: whenever spawn_terminal has returned the primary descriptor of a   *)
(* session to the caller, that descriptor is non-blocking; no read or      *)
(* write of the caller on it suspends the caller; and a read with no data  *)
(* waiting, on a pseudo-terminal whose secondary side is still open,       *)
(* returns the would-block error and changes nothing else of the session.  *)
(***************************************************************************)
C18_ReadWouldBlock ==
    \A s \in SessionIds :
        (ReadFromTtyStdout(s) /\ ~sessions[s].out /\ SecondaryOpen(s)) =>
            /\ sessions' = [sessions EXCEPT ![s] = [@ EXCEPT !.io = "EAGAIN"]]
            /\ caller' = caller

C19_CloneCopies ==
    /\ \A h \in ServerHandles :
          ServerBoxClone(h) =>
              /\ Len(server') = Len(server) + 1
              /\ server'[Len(server')].server_sender = server[h].server_sender
              /\ server'[Len(server')].client_sender = server[h].client_sender
              /\ \A g \in ServerHandles : server'[g] = server[g]
    /\ \A k \in ClientHandles :
          ClientBoxClone(k) =>
              /\ Len(client') = Len(client) + 1
              /\ client'[Len(client')].server_sender = client[k].server_sender
              /\ \A j \in ClientHandles : client'[j] = client[j]

C19_OthersUnchanged ==
    /\ \A h \in ServerHandles : \A c \in ErrorContexts :
          ServerUpdateSenders(h, c) =>
              \A g \in ServerHandles \ {h} : server'[g] = server[g]
    /\ \A k \in ClientHandles : \A c \in ErrorContexts :
          ClientUpdateSenders(k, c) =>
              \A j \in ClientHandles \ {k} : client'[j] = client[j]

C19_OwnContext ==
    [][C19_CloneCopies /\ C19_OthersUnchanged /\ SendPairsCurrentCtx]_vars

\* the server's handle and its clone hold different contexts, and a message
\* sent through the clone was received paired with the clone's context
C19_Witness ==
    /\ Len(server) = 2
    /\ CurrentCtx(ServerSenderId(1)) = Some("empty")
    /\ CurrentCtx(ServerSenderId(2)) = Some("ctx1")
    /\ \E i \in 1..Len(received[ZELLIJ_IPC_PIPE]) :
          /\ received[ZELLIJ_IPC_PIPE][i].id[1] = ServerSenderId(2)
          /\ received[ZELLIJ_IPC_PIPE][i].err_ctx = "ctx1"

(***************************************************************************)
(* C20: send_to_client on a server handle that holds no client sender, and *)
(* client_recv on a client handle that holds no receiver, do not wait and  *)
(* do not return: the call terminates the calling process, and no buffer   *)
(* gains or loses a message by it.                                         *)
(***************************************************************************)
C20_FatalStep ==
    /\ \A h \in ServerHandles : \A n \in ClientInstructionNames :
          (SendToClient(h, Instr(n)) /\ ~IsSome(server[h].client_sender)) =>
              /\ ServerProc \in crashed'
              /\ buffers' = buffers
              /\ received' = received
    /\ \A k \in ClientHandles :
          (ClientRecv(k) /\ ~IsSome(client[k].client_receiver)) =>
              /\ client[k].proc \in crashed'
              /\ buffers' = buffers
              /\ received' = received

\* the call can be taken at once, whatever the buffers hold
C20_NotBlocked ==
    /\ \A h \in ServerHandles :
          (ServerReady(h) /\ ~IsSome(server[h].client_sender) /\ TotalCalls < MaxCalls) =>
              ENABLED SendToClient(h, Instr("Render"))
    /\ \A k \in ClientHandles :
          (ClientReady(k) /\ ~IsSome(client[k].client_receiver)) => ENABLED ClientRecv(k)

C20_UnsetChannelFatal ==
    /\ []C20_NotBlocked
    /\ [](\A h \in ServerHandles : \A n \in 1..Len(calls[ClientSenderId(h)]) :
             calls[ClientSenderId(h)][n].to = -1 =>
                 /\ calls[ClientSenderId(h)][n].outcome = "panicked"
                 /\ ServerProc \in crashed)
    /\ [][C20_FatalStep]_vars

\* the server was ended by a send_to_client without a client sender and a
\* client by a client_recv without a receiver, while a message sent earlier
\* still waits in the well-known buffer
C20_Witness ==
    /\ ServerProc \in crashed
    /\ \E n \in 1..Len(calls[ClientSenderId(1)]) : calls[ClientSenderId(1)][n].to = -1
    /\ \E k \in ClientHandles :
          /\ client[k].proc \in crashed
          /\ ~IsSome(client[k].client_receiver)
          /\ \A n \in 1..Len(calls[ClientId(k)]) : calls[ClientId(k)][n].outcome = "returned"
    /\ Len(buffers[ZELLIJ_IPC_PIPE]) >= 1

====
